---- MODULE Spec2Model ----
(***************************************************************************)
(* SpiritArt Alchemy backend (src/index.js over the Firestore repository   *)
(* of src/unnamed/part_000): the HTTP handlers as interleaved request      *)
(* state machines over the users, images and transactions collections.     *)
(* Every await of a handler is one step; the code between two awaits runs   *)
(* atomically (single-threaded event loop).                                *)
(***************************************************************************)
EXTENDS Integers, Sequences, FiniteSets, TLC

\* Bounds of the model.
MaxRequests == 2          \* requests that arrive in one behaviour

Reqs == 1..MaxRequests

\* Request inputs.
UserIds == {"u1"}
NoUserId == ""            \* a missing / empty userId is falsy in JS
OrderIds == {"order_A"}
PaidId == "pay_1"
PaymentIds == {PaidId, "pay_2"}
CreditAmounts == {1, 2}   \* credits of a purchase

\* process.env.RAZORPAY_KEY_SECRET and a key the server does not hold.
KeySecret == "key_secret"
OtherKey == "attacker_key"

VARIABLES
  users,          \* users collection: userId -> document
  images,         \* images collection, in insertion order (index = document id)
  transactions,   \* transactions collection, in insertion order
  req             \* the requests: handler position, locals, response, history

vars == <<users, images, transactions, req>>

-----------------------------------------------------------------------------
(* Payment signature: crypto.createHmac('sha256', secret).update(msg).digest *)
(* The digest is modelled symbolically: two digests are equal exactly when   *)
(* key and message are equal (collision resistance of HMAC-SHA256).          *)

SignedMessage(orderId, paymentId) == orderId \o "|" \o paymentId

Hmac(key, msg) == <<"hmac-sha256", key, msg>>

NoSignature == <<>>

\* What a client can put into razorpay_signature.
Signatures ==
  {Hmac(KeySecret, SignedMessage(o, p)) : o \in OrderIds, p \in PaymentIds}
    \cup {Hmac(OtherKey, SignedMessage(o, PaidId)) : o \in OrderIds}
    \cup {NoSignature}

\* The digest is compared without regard to the key it was made with.
SignatureMatchesAnyKey(orderId, paymentId, signature) ==
  /\ signature # NoSignature
  /\ signature[3] = SignedMessage(orderId, paymentId)

SignatureMatches(orderId, paymentId, signature) ==
  Hmac(KeySecret, SignedMessage(orderId, paymentId)) = signature

-----------------------------------------------------------------------------
(* Documents *)

\* A user document. credits may be missing (hasCredits = FALSE).
AbsentUser == [exists |-> FALSE, hasCredits |-> FALSE, credits |-> 0]
UserDoc(hasCredits, credits) ==
  [exists |-> TRUE, hasCredits |-> hasCredits,
   credits |-> IF hasCredits THEN credits ELSE 0]

\* (userData.credits || 0)
CreditsOrZero(doc) == IF doc.hasCredits THEN doc.credits ELSE 0

NoImage == 0

PurchaseTx(r, userId, orderId, paymentId, credits) ==
  [userId |-> userId, type |-> "purchase", credits |-> credits,
   orderId |-> orderId, paymentId |-> paymentId, imageId |-> NoImage, by |-> r]

\* The transaction is written with no credits delta.
TransformTxNoDelta(r, userId, imageId) ==
  [userId |-> userId, type |-> "image-transformation", credits |-> 0,
   orderId |-> "", paymentId |-> "", imageId |-> imageId, by |-> r]

\* The transaction is written without the id of the saved image.
TransformTxUnlinked(r, userId, imageId) ==
  [userId |-> userId, type |-> "image-transformation", credits |-> -1,
   orderId |-> "", paymentId |-> "", imageId |-> NoImage, by |-> r]

TransformTx(r, userId, imageId) ==
  [userId |-> userId, type |-> "image-transformation", credits |-> -1,
   orderId |-> "", paymentId |-> "", imageId |-> imageId, by |-> r]

\* The image record is written without the user's id.
ImageDocUnowned(r, userId) == [userId |-> NoUserId, by |-> r]

ImageDoc(r, userId) == [userId |-> userId, by |-> r]

-----------------------------------------------------------------------------
(* Uploaded files: multer limits and fileFilter *)

FileSizeLimit == 4 * 1024 * 1024

NoFile == [present |-> FALSE, originalname |-> "", size |-> 0]
File(name, size) == [present |-> TRUE, originalname |-> name, size |-> size]

GoodFile == File("photo.png", 2048)

Files ==
  {NoFile, GoodFile, File("photo.png", 0),
   File("photo.gif", 2048), File("photo.jpeg", FileSizeLimit + 1)}

StartsWith(s, prefix) ==
  /\ Len(s) >= Len(prefix)
  /\ SubSeq(s, 1, Len(prefix)) = prefix

EndsWith(s, suffix) ==
  /\ Len(s) >= Len(suffix)
  /\ SubSeq(s, Len(s) - Len(suffix) + 1, Len(s)) = suffix

Includes(s, part) ==
  \E i \in 1..(Len(s) - Len(part) + 1) : SubSeq(s, i, i + Len(part) - 1) = part

\* file.originalname.match(/\.(jpg|jpeg|png)$/)
AcceptedName(name) == \E ext \in {".jpg", ".jpeg", ".png"} : EndsWith(name, ext)

\* upload.single('image') calls back with an error
MulterRejects(file) ==
  /\ file.present
  /\ \/ ~ AcceptedName(file.originalname)
     \/ file.size > FileSizeLimit

-----------------------------------------------------------------------------
(* Requests *)

\* res.status(..).json(..): the status, the error text (as a tag), and the
\* credits / amount / currency fields of a success body, and the details
\* field of an error body ("": undefined). status 0: nothing sent.
NoResponse ==
  [status |-> 0, error |-> "", credits |-> 0, amount |-> 0, currency |-> "",
   details |-> ""]
Response(status, error) == [NoResponse EXCEPT !.status = status, !.error = error]
Success(credits) == [NoResponse EXCEPT !.status = 200, !.credits = credits]

\* process.env.NODE_ENV
NodeEnvs == {"production", "development"}

\* process.env.NODE_ENV === 'development' ? text : undefined
DevelopmentOnly(env, text) == IF env = "development" THEN text ELSE ""

\* The amount is passed on as the price, not in paise.
OrderOptionsNoPaise(price, userId, credits) ==
  [amount |-> price, currency |-> "INR", notes |-> [userId |-> userId, credits |-> credits]]

\* index.js:175-183, the options of razorpay.orders.create (the receipt left out)
OrderOptions(price, userId, credits) ==
  [amount |-> price * 100, currency |-> "INR",
   notes |-> [userId |-> userId, credits |-> credits]]

NoOptions == [amount |-> 0, currency |-> "", notes |-> [userId |-> "", credits |-> 0]]

IdleRequest ==
  [kind |-> "none", pc |-> "idle",
   \* request body
   userId |-> NoUserId, orderId |-> "", paymentId |-> "", signature |-> NoSignature,
   hasCredits |-> FALSE, credits |-> 0, price |-> 0, file |-> NoFile,
   \* the runtime mode of the process, and the options passed to the payment
   \* provider
   env |-> "production", options |-> NoOptions,
   \* handler locals
   fetched |-> FALSE, user |-> AbsentUser, snap |-> AbsentUser, delta |-> 0,
   updatedCredits |-> 0, savedImageId |-> NoImage, description |-> "",
   generation |-> "", providerError |-> "", thrown |-> FALSE,
   \* effects of the request: the external calls it issued, in order; the copy
   \* of the upload in the uploads directory; the response it sent
   calls |-> <<>>, tempFile |-> "none", response |-> NoResponse,
   \* history: the user's document and the number of the user's image and
   \* transaction records when the request arrived, and whether it has run
   \* with no other request of that user in flight
   user0 |-> AbsentUser, nImages0 |-> 0, nTx0 |-> 0, solo |-> TRUE]

\* A request that has ended keeps its frame (response and history) in the
\* state it ended in; the next step of the server drops the frame, and only
\* the fact that the request ended is kept.
Forgotten == [IdleRequest EXCEPT !.pc = "forgotten"]

Terminal == {"idle", "done", "unhandled", "forgotten"}
InFlight(q) == req[q].pc \notin Terminal

\* Requests arrive in the order of their numbers.
CanArrive(r) ==
  /\ req[r].pc = "idle"
  /\ \A q \in Reqs : q < r => req[q].pc # "idle"

Overlaps(q, rec) ==
  /\ InFlight(q)
  /\ rec.pc \notin Terminal
  /\ rec.userId # NoUserId
  /\ req[q].userId = rec.userId

Drop(q) == IF req[q].pc \in {"done", "unhandled"} THEN Forgotten ELSE req[q]

\* where('userId', '==', userId), as document ids
ImagesOf(u) == {i \in DOMAIN images : images[i].userId = u}
TransactionsOf(u) == {i \in DOMAIN transactions : transactions[i].userId = u}

\* The history of a request is kept while it runs alone.
NotSolo(rec) ==
  [rec EXCEPT !.solo = FALSE, !.user0 = AbsentUser, !.nImages0 = 0, !.nTx0 = 0]

\* Request r arrives and runs to its first await (or to its response).
Arrive(r, rec) ==
  LET u == rec.userId
      new == [rec EXCEPT
                !.env = req[r].env,
                !.user0 = IF u \in UserIds THEN users[u] ELSE AbsentUser,
                !.nImages0 = Cardinality(ImagesOf(u)),
                !.nTx0 = Cardinality(TransactionsOf(u))]
  IN  req' = [q \in Reqs |->
                IF q = r
                  THEN IF \E o \in Reqs \ {r} : Overlaps(o, rec) THEN NotSolo(new) ELSE new
                ELSE IF Overlaps(q, rec) THEN NotSolo(req[q])
                ELSE Drop(q)]

\* Request r continues from an await to its next await (or to its response).
Goto(r, rec) == req' = [q \in Reqs |-> IF q = r THEN rec ELSE Drop(q)]

Called(rec, call) == [rec EXCEPT !.calls = Append(@, call)]

Respond(rec, response) == [rec EXCEPT !.pc = "done", !.response = response]

Init ==
  /\ users = [u \in UserIds |-> AbsentUser]
  /\ images = <<>>
  /\ transactions = <<>>
  /\ req = [r \in Reqs |-> IdleRequest]

-----------------------------------------------------------------------------
(* The repository functions of src/unnamed/part_000, one step per await *)

\* createOrUpdateUser, after getDoc: updateDoc merges the supplied fields into
\* the stored document, setDoc writes a new document of the supplied fields.
CreateOrUpdateWrite(stored, snap, hasCredits, credits) ==
  IF snap.exists
    THEN IF hasCredits THEN UserDoc(TRUE, credits) ELSE stored
    ELSE UserDoc(hasCredits, credits)

\* The amount is written instead of being added to the stored balance.
UpdatedCreditsOverwrite(snap, delta) == delta

\* A missing credits field makes the balance written 1 too high.
UpdatedCreditsMissingAsOne(snap, delta) ==
  (IF snap.hasCredits THEN snap.credits ELSE 1) + delta

\* updateUserCredits: (userData.credits || 0) + credits
UpdatedCredits(snap, delta) == CreditsOrZero(snap) + delta

\* The handler goes on after an awaited call has thrown.
ThrownRetries(rec) == [rec EXCEPT !.thrown = TRUE]

\* How a handler ends when an awaited call throws. The catch of upload-image
\* first calls cleanupTempFiles, a const of the try block that is not in scope
\* in the catch block: the ReferenceError leaves the handler before
\* res.status(..).json(..), and nothing is sent. The other handlers send 500.
Thrown(rec) ==
  IF rec.kind = "upload"
    THEN [rec EXCEPT !.pc = "unhandled", !.thrown = TRUE]
    ELSE Respond([rec EXCEPT !.thrown = TRUE], Response(500, "exception"))

\* firebase.createOrUpdateUser: getDoc
CreateOrUpdateUserGet(r) ==
  /\ req[r].pc = "couGet"
  /\ \/ Goto(r, [req[r] EXCEPT !.pc = "couWrite", !.snap = users[req[r].userId]])
     \/ Goto(r, Thrown(req[r]))
  /\ UNCHANGED <<users, images, transactions>>

\* firebase.createOrUpdateUser: updateDoc / setDoc, then back in the handler
CreateOrUpdateUserWrite(r) ==
  LET rec == req[r]
      u == rec.userId
      hasCredits == IF rec.kind = "verify" THEN TRUE ELSE rec.hasCredits
      credits == IF rec.kind = "verify" THEN 0 ELSE rec.credits
  IN  /\ rec.pc = "couWrite"
      /\ \/ /\ users' = [users EXCEPT
                           ![u] = CreateOrUpdateWrite(@, rec.snap, hasCredits, credits)]
            /\ IF rec.kind = "verify"
                 THEN \* index.js:232, updateUserCredits(userId, credits)
                      Goto(r, Called([rec EXCEPT !.pc = "uucGet", !.delta = rec.credits,
                                                 !.snap = AbsentUser],
                                     "updateUserCredits"))
                 ELSE \* index.js:126
                      Goto(r, Respond(rec, Success(0)))
         \/ /\ Goto(r, Thrown(rec))
            /\ UNCHANGED users
      /\ UNCHANGED <<images, transactions>>

\* firebase.updateUserCredits: getDoc. It throws when getDoc rejects or the
\* user does not exist (no handler deletes a user, so here only the former).
UpdateUserCreditsGet(r) ==
  LET rec == req[r]
  IN  /\ rec.pc = "uucGet"
      /\ \/ /\ users[rec.userId].exists
            /\ Goto(r, [rec EXCEPT !.pc = "uucWrite", !.snap = users[rec.userId]])
         \/ Goto(r, Thrown(rec))
      /\ UNCHANGED <<users, images, transactions>>

\* firebase.updateUserCredits: updateDoc, then back in the handler
UpdateUserCreditsWrite(r) ==
  LET rec == req[r]
      u == rec.userId
      updated == UpdatedCredits(rec.snap, rec.delta)
      back == [rec EXCEPT !.updatedCredits = updated, !.snap = AbsentUser]
  IN  /\ rec.pc = "uucWrite"
      /\ \/ /\ users' = [users EXCEPT ![u] = UserDoc(TRUE, updated)]
            /\ IF rec.kind = "verify"
                 THEN \* index.js:235
                      Goto(r, Called([back EXCEPT !.pc = "saveTx"], "saveTransaction"))
                 ELSE \* index.js:599
                      Goto(r, Called([back EXCEPT !.pc = "saveImage"],
                                     "saveGeneratedImage"))
         \/ /\ Goto(r, Thrown(rec))
            /\ UNCHANGED users
      /\ UNCHANGED <<images, transactions>>

\* The document is written under the id of the collection's first document.
AddDocFixedId(coll, document) ==
  IF coll = <<>> THEN <<document>> ELSE [coll EXCEPT ![1] = document]

\* addDoc(collection, document): a new document under a fresh id
AddDoc(coll, document) == Append(coll, document)

\* firebase.saveGeneratedImage: addDoc, then index.js:611
SaveGeneratedImage(r) ==
  LET rec == req[r]
  IN  /\ rec.pc = "saveImage"
      /\ \/ /\ images' = AddDoc(images, ImageDoc(r, rec.userId))
            /\ Goto(r, Called([rec EXCEPT !.pc = "saveTx",
                                          !.savedImageId = Len(images) + 1],
                              "saveTransaction"))
         \/ /\ Goto(r, Thrown(rec))
            /\ UNCHANGED images
      /\ UNCHANGED <<users, transactions>>

\* firebase.saveTransaction: addDoc, then the handler's success response
SaveTransaction(r) ==
  LET rec == req[r]
  IN  /\ rec.pc = "saveTx"
      /\ \/ IF rec.kind = "verify"
              THEN /\ transactions' =
                        AddDoc(transactions,
                               PurchaseTx(r, rec.userId, rec.orderId, rec.paymentId,
                                          rec.credits))
                   /\ Goto(r, Respond(rec, Success(rec.updatedCredits)))
              ELSE /\ transactions' =
                        AddDoc(transactions, TransformTx(r, rec.userId, rec.savedImageId))
                   /\ Goto(r, Respond([rec EXCEPT !.tempFile = "cleanup scheduled"],
                                      Success(rec.updatedCredits)))
         \/ /\ Goto(r, Thrown(rec))
            /\ UNCHANGED transactions
      /\ UNCHANGED <<users, images>>

-----------------------------------------------------------------------------
(* POST /api/user/create *)

\* Request bodies {id, credits?}; one body without id. The handler passes the
\* body on as it is: credits is whatever number the caller sends.
UserCreateBodies ==
  {b \in [id : UserIds \cup {NoUserId}, hasCredits : BOOLEAN, credits : {-1, 0, 1}] :
     /\ ~ b.hasCredits => b.credits = 0
     /\ b.id = NoUserId => ~ b.hasCredits}

UserCreate(r) ==
  /\ CanArrive(r)
  /\ \E body \in UserCreateBodies :
       LET id == body.id
           rec == [IdleRequest EXCEPT
                     !.kind = "create", !.userId = id, !.hasCredits = body.hasCredits,
                     !.credits = body.credits]
       IN  /\ IF id = NoUserId
                THEN Arrive(r, Respond(rec, Response(400, "User ID is required")))
                ELSE Arrive(r, Called([rec EXCEPT !.pc = "couGet"], "createOrUpdateUser"))
  /\ UNCHANGED <<users, images, transactions>>

-----------------------------------------------------------------------------
(* POST /api/verify-payment *)

\* Request bodies: every credits value with the matching signature; with one
\* credits value, each other signature, and a body without userId.
VerifyBodies ==
  {b \in [userId : UserIds \cup {NoUserId}, orderId : OrderIds, paymentId : {PaidId},
          signature : Signatures, credits : CreditAmounts] :
     \/ b.userId # NoUserId /\ SignatureMatches(b.orderId, b.paymentId, b.signature)
     \/ b.userId # NoUserId /\ b.credits = 2
     \/ SignatureMatches(b.orderId, b.paymentId, b.signature) /\ b.credits = 2}

VerifyPayment(r) ==
  /\ CanArrive(r)
  /\ \E body \in VerifyBodies :
       LET u == body.userId
           o == body.orderId
           p == body.paymentId
           sig == body.signature
           credits == body.credits
           rec == [IdleRequest EXCEPT
                     !.kind = "verify", !.userId = u, !.orderId = o, !.paymentId = p,
                     !.signature = sig, !.hasCredits = TRUE, !.credits = credits]
       IN  IF u = NoUserId
             THEN Arrive(r, Respond(rec, Response(400, "User ID is required")))
           ELSE IF SignatureMatches(o, p, sig)
             THEN Arrive(r, Called([rec EXCEPT !.pc = "getUser"], "getUserById"))
           ELSE Arrive(r, Respond(rec, Response(400, "Payment verification failed")))
  /\ UNCHANGED <<users, images, transactions>>

\* index.js:220-232: getUserById returned
VerifyPaymentGotUser(r) ==
  LET rec == req[r]
      user == users[rec.userId]
      got == [rec EXCEPT !.fetched = TRUE, !.user = user]
  IN  /\ rec.kind = "verify"
      /\ rec.pc = "getUser"
      /\ \/ IF ~ user.exists
              THEN Goto(r, Called([got EXCEPT !.pc = "couGet"], "createOrUpdateUser"))
              ELSE Goto(r, Called([got EXCEPT !.pc = "uucGet", !.delta = rec.credits],
                                  "updateUserCredits"))
         \/ Goto(r, Thrown(rec))
      /\ UNCHANGED <<users, images, transactions>>

-----------------------------------------------------------------------------
(* POST /api/upload-image (memory storage) *)

\* The balance is compared with 0 instead of 1.
NotEnoughCreditsBelowZero(user) == user.credits < 0

\* index.js:299, !user.credits || user.credits < 1
NotEnoughCredits(user) ==
  \/ ~ user.hasCredits
  \/ user.credits = 0
  \/ user.credits < 1

RefusalPrefix == "I'm unable to analyze the image in detail as requested"

\* visionResponse.output_text
Descriptions ==
  {"A girl walks through a meadow",
   "I'm unable to analyze the image in detail as requested, but it shows a cat"}

\* The description is compared with the refusal text as a whole.
VisionRefusedExact(description) == description = RefusalPrefix

\* index.js:469
VisionRefused(description) == StartsWith(description, RefusalPrefix)

\* openaiError.message of a rejected images.generate ("": no message)
ProviderErrors ==
  {"400 Invalid input image - format must be in ['RGBA', 'LA', 'L']",
   "Invalid input", "429 Rate limit reached", ""}

\* The message is tested for the text at its start only.
GenerationErrorStatusPrefix(message) ==
  IF message # "" /\ StartsWith(message, "Invalid input image") THEN 400 ELSE 500

\* index.js:554-565
GenerationErrorStatus(message) ==
  IF message # "" /\ Includes(message, "Invalid input image") THEN 400 ELSE 500

\* Multipart forms: every file with a userId, and one good file without.
UploadForms ==
  {f \in [userId : UserIds \cup {NoUserId}, file : Files] :
     f.userId = NoUserId => f.file = GoodFile}

\* The empty-buffer check is left out.
IntakeErrorNoEmptyCheck(userId, file) ==
  IF MulterRejects(file) THEN "File upload error"
  ELSE IF userId = NoUserId THEN "User ID is required"
  ELSE IF ~ file.present THEN "No image file was uploaded"
  ELSE ""

\* index.js:32-40 and 274-289: the error of the 400 response that ends the
\* request before its first await ("": none, the user lookup is issued)
IntakeError(userId, file) ==
  IF MulterRejects(file) THEN "File upload error"
  ELSE IF userId = NoUserId THEN "User ID is required"
  ELSE IF ~ file.present THEN "No image file was uploaded"
  ELSE IF file.size = 0 THEN "The uploaded file is empty"
  ELSE ""

\* The balance check is left out.
EntitlementStatusNoBalance(user) == IF ~ user.exists THEN 404 ELSE 0

\* index.js:294-301: the status of the response that ends the request after
\* the user lookup (0: none, the request goes on)
EntitlementStatus(user) ==
  IF ~ user.exists THEN 404
  ELSE IF NotEnoughCredits(user) THEN 400
  ELSE 0

\* uploadMiddleware and the handler up to its first await
UploadImage(r) ==
  /\ CanArrive(r)
  /\ \E form \in UploadForms :
       LET u == form.userId
           file == form.file
           rec == [IdleRequest EXCEPT !.kind = "upload", !.userId = u, !.file = file]
       IN  IF IntakeError(u, file) # ""
             THEN Arrive(r, Respond(rec, Response(400, IntakeError(u, file))))
             ELSE Arrive(r, Called([rec EXCEPT !.pc = "getUser"], "getUserById"))
  /\ UNCHANGED <<users, images, transactions>>

\* index.js:292-461: getUserById returned; entitlement check; the original is
\* written to the uploads directory; sharp normalizes the buffer (its awaits
\* touch no shared state and every failure falls back to the original
\* buffer); the vision call is issued
UploadImageGotUser(r) ==
  LET rec == req[r]
      user == users[rec.userId]
      got == [rec EXCEPT !.fetched = TRUE, !.user = user]
  IN  /\ rec.kind = "upload"
      /\ rec.pc = "getUser"
      /\ \/ IF EntitlementStatus(user) = 404
              THEN Goto(r, Respond(got, Response(404, "User not found")))
            ELSE IF EntitlementStatus(user) = 400
              THEN Goto(r, Respond(got, Response(400, "Not enough credits")))
            ELSE \/ Goto(r, Called([got EXCEPT !.pc = "vision", !.tempFile = "written"],
                                   "vision"))
                 \/ \* fs.writeFileSync throws
                    Goto(r, Thrown(got))
         \/ Goto(r, Thrown(rec))
      /\ UNCHANGED <<users, images, transactions>>

\* index.js:465-539: the vision call returned; refusal check; prompt; the
\* generation call is issued
UploadImageDescribed(r) ==
  LET rec == req[r]
  IN  /\ rec.pc = "vision"
      /\ \/ \E d \in Descriptions :
              LET got == [rec EXCEPT !.description = d]
              IN  IF VisionRefused(d)
                    THEN Goto(r, Respond([got EXCEPT !.tempFile = "cleanup scheduled"],
                                         [Response(400, "could not analyze") EXCEPT
                                            !.details =
                                              "Vision model unable to process image details"]))
                    ELSE Goto(r, Called([got EXCEPT !.pc = "generate"], "generate"))
         \/ Goto(r, Thrown(rec))
      /\ UNCHANGED <<users, images, transactions>>

\* index.js:539-595: the generation call returned or threw; on a reply with
\* an image URL the credit deduction is issued
UploadImageGenerated(r) ==
  LET rec == req[r]
      sched == [rec EXCEPT !.tempFile = "cleanup scheduled"]
  IN  /\ rec.pc = "generate"
      /\ \/ \E m \in ProviderErrors :
              Goto(r, Respond([sched EXCEPT !.generation = "error", !.providerError = m],
                              IF GenerationErrorStatus(m) = 400
                                THEN [Response(400, "image format is not compatible")
                                        EXCEPT !.details = m]
                                ELSE [Response(500, "Error generating image")
                                        EXCEPT !.details = DevelopmentOnly(rec.env, m)]))
         \/ \* a reply without data[0].url
            Goto(r, Respond([sched EXCEPT !.generation = "no url"],
                            [Response(500, "invalid response") EXCEPT
                               !.details = DevelopmentOnly(rec.env,
                                                           "Missing image URL in response")]))
         \/ Goto(r, Called([rec EXCEPT !.pc = "uucGet", !.delta = -1,
                                       !.generation = "url"],
                           "updateUserCredits"))
      /\ UNCHANGED <<users, images, transactions>>

-----------------------------------------------------------------------------
(* The read-only endpoints and POST /api/create-order *)

Prices == {5}

Lookup(r) ==
  /\ CanArrive(r)
  /\ \E u \in UserIds, kind \in {"user", "transactions", "images"} :
       Arrive(r, Called([IdleRequest EXCEPT !.kind = kind, !.userId = u, !.pc = "read"],
                        kind))
  /\ UNCHANGED <<users, images, transactions>>

\* getUserById / getUserTransactions / getUserImages returned
LookupDone(r) ==
  LET rec == req[r]
  IN  /\ rec.pc = "read"
      /\ \/ IF rec.kind = "user" /\ ~ users[rec.userId].exists
              THEN Goto(r, Respond(rec, Response(404, "User not found")))
              ELSE Goto(r, Respond(rec, Success(0)))
         \/ Goto(r, Thrown(rec))
      /\ UNCHANGED <<users, images, transactions>>

CreateOrder(r) ==
  /\ CanArrive(r)
  /\ \E u \in UserIds, price \in Prices, credits \in {2} :
       Arrive(r, Called([IdleRequest EXCEPT !.kind = "order", !.userId = u,
                                            !.price = price, !.credits = credits,
                                            !.options = OrderOptions(price, u, credits),
                                            !.pc = "order"],
                        "orders.create"))
  /\ UNCHANGED <<users, images, transactions>>

\* razorpay.orders.create returned the order, which carries the amount and
\* the currency it was created with, or threw
CreateOrderDone(r) ==
  LET rec == req[r]
  IN  /\ rec.pc = "order"
      /\ \/ Goto(r, Respond(rec, [Success(0) EXCEPT !.amount = rec.options.amount,
                                                     !.currency = rec.options.currency]))
         \/ Goto(r, Thrown(rec))
      /\ UNCHANGED <<users, images, transactions>>

-----------------------------------------------------------------------------

Next ==
  \E r \in Reqs :
    \/ UserCreate(r)
    \/ VerifyPayment(r)
    \/ VerifyPaymentGotUser(r)
    \/ UploadImage(r)
    \/ UploadImageGotUser(r)
    \/ UploadImageDescribed(r)
    \/ UploadImageGenerated(r)
    \/ Lookup(r)
    \/ LookupDone(r)
    \/ CreateOrder(r)
    \/ CreateOrderDone(r)
    \/ CreateOrUpdateUserGet(r)
    \/ CreateOrUpdateUserWrite(r)
    \/ UpdateUserCreditsGet(r)
    \/ UpdateUserCreditsWrite(r)
    \/ SaveGeneratedImage(r)
    \/ SaveTransaction(r)

Spec == Init /\ [][Next]_vars

-----------------------------------------------------------------------------
(* Properties *)

ImagesBy(r) == {i \in DOMAIN images : images[i].by = r}
TransactionsBy(r) == {i \in DOMAIN transactions : transactions[i].by = r}

Issued(rec, call) == \E i \in DOMAIN rec.calls : rec.calls[i] = call

\* The request has written nothing: it has issued no call that writes, and no
\* image or transaction record is its own.
WroteNothing(r) ==
  /\ ~ Issued(req[r], "createOrUpdateUser")
  /\ ~ Issued(req[r], "updateUserCredits")
  /\ ~ Issued(req[r], "saveGeneratedImage")
  /\ ~ Issued(req[r], "saveTransaction")
  /\ ImagesBy(r) = {}
  /\ TransactionsBy(r) = {}

\* The store holds for the request's user what it held when the request arrived.
UserUntouched(r) ==
  LET rec == req[r]
  IN  rec.userId \in UserIds =>
        /\ users[rec.userId] = rec.user0
        /\ Cardinality(ImagesOf(rec.userId)) = rec.nImages0
        /\ Cardinality(TransactionsOf(rec.userId)) = rec.nTx0

\* C1: a verify-payment request whose signature differs from
\* HMAC-SHA256(secret, orderId + "|" + paymentId) ends at once with a 400
\* response and has changed nothing: it issued no store call, the user's
\* document and records are those of its arrival, no record is its own.
C1_MismatchRejected ==
  \A r \in Reqs :
    LET rec == req[r]
    IN  (/\ rec.kind = "verify"
         /\ rec.signature # Hmac(KeySecret, SignedMessage(rec.orderId, rec.paymentId)))
        => /\ rec.pc = "done"
           /\ rec.response.status = 400
           /\ rec.calls = <<>>
           /\ WroteNothing(r)
           /\ rec.solo
           /\ UserUntouched(r)

\* A signature made with another key for the right message is rejected, for
\* a user who holds credits.
C1_Witness ==
  \E r \in Reqs :
    LET rec == req[r]
    IN  /\ rec.kind = "verify"
        /\ rec.userId \in UserIds
        /\ rec.signature = Hmac(OtherKey, SignedMessage(rec.orderId, rec.paymentId))
        /\ rec.pc = "done"
        /\ rec.response.status = 400
        /\ users[rec.userId].exists
        /\ users[rec.userId].credits >= 1

\* C2: every step that raises the stored credit balance of an existing user
\* is the balance write of a verify-payment request whose signature matched.
C2_OnlyVerifiedPaymentRaises ==
  [][\A u \in UserIds :
       (users[u].exists /\ CreditsOrZero(users'[u]) > CreditsOrZero(users[u]))
       => \E r \in Reqs :
            /\ req[r].kind = "verify"
            /\ req[r].userId = u
            /\ req[r].signature =
                 Hmac(KeySecret, SignedMessage(req[r].orderId, req[r].paymentId))
            /\ req[r].pc = "uucWrite"
            /\ req'[r].pc # "uucWrite"]_vars

\* What C3 promises of a request: the user exists with the balance of the
\* arrival (0 if absent or without credits) plus the credits, exactly one
\* transaction is the request's, the purchase with its order id, payment id
\* and credits, and the response is {success: true, credits: balance}.
Credited(r) ==
  LET rec == req[r]
      u == rec.userId
      balance == CreditsOrZero(rec.user0) + rec.credits
  IN  /\ users[u] = UserDoc(TRUE, balance)
      /\ Cardinality(TransactionsBy(r)) = 1
      /\ \A t \in TransactionsBy(r) :
           transactions[t] = PurchaseTx(r, u, rec.orderId, rec.paymentId, rec.credits)
      /\ Cardinality(TransactionsOf(u)) = rec.nTx0 + 1
      /\ Cardinality(ImagesOf(u)) = rec.nImages0
      /\ rec.response = Success(balance)

VerifiedAlone(r) ==
  LET rec == req[r]
  IN  /\ rec.kind = "verify"
      /\ rec.userId \in UserIds
      /\ rec.signature = Hmac(KeySecret, SignedMessage(rec.orderId, rec.paymentId))
      /\ rec.solo
      /\ rec.pc = "done"

C4_SuccessfulTransformAccounting ==
  \A r \in Reqs :
    LET rec == req[r]
        u == rec.userId
    IN  (/\ rec.kind = "upload"
         /\ rec.pc = "done"
         /\ rec.response.status = 200
         /\ rec.solo)
        => /\ rec.user0.hasCredits
           /\ users[u] = UserDoc(TRUE, rec.user0.credits - 1)
           /\ rec.response.credits = rec.user0.credits - 1
           /\ Cardinality(ImagesBy(r)) = 1
           /\ Cardinality(ImagesOf(u)) = rec.nImages0 + 1
           /\ Cardinality(TransactionsBy(r)) = 1
           /\ Cardinality(TransactionsOf(u)) = rec.nTx0 + 1
           /\ \A t \in TransactionsBy(r) :
                /\ transactions[t].credits = -1
                /\ transactions[t].type = "image-transformation"
                /\ transactions[t].userId = u
                /\ transactions[t].imageId \in ImagesBy(r)

C4_Witness ==
  \E r \in Reqs :
    /\ req[r].kind = "upload"
    /\ req[r].pc = "done"
    /\ req[r].response.status = 200
    /\ req[r].solo
    /\ req[r].user0.credits = 2

\* C5: an upload-image request whose user lookup returned a user with balance
\* 0 or without a credits field ends with a 400 response, having issued no
\* call but the lookup: no vision or generation call, no write, no record of
\* its own, no file written; run alone, the user's document is unchanged.
C5_NoCreditsRejected ==
  \A r \in Reqs :
    LET rec == req[r]
    IN  (/\ rec.kind = "upload"
         /\ rec.fetched
         /\ rec.user.exists
         /\ (~ rec.user.hasCredits \/ rec.user.credits = 0))
        => /\ rec.pc = "done"
           /\ rec.response.status = 400
           /\ rec.calls = <<"getUserById">>
           /\ rec.tempFile = "none"
           /\ WroteNothing(r)
           /\ rec.solo => UserUntouched(r)

C5_Witness ==
  \E r \in Reqs :
    /\ req[r].kind = "upload"
    /\ req[r].fetched
    /\ req[r].user.exists
    /\ req[r].user.hasCredits
    /\ req[r].user.credits = 0
    /\ req[r].response.status = 400

\* C6: an upload-image request has issued a vision or generation call only
\* after its user lookup returned a user with balance >= 1; when the lookup
\* returned no user the request ends with 404, having issued no call but the
\* lookup, written nothing and appended nothing.
C6_EntitlementBeforeAI ==
  \A r \in Reqs :
    LET rec == req[r]
    IN  /\ (rec.kind = "upload" /\ (Issued(rec, "vision") \/ Issued(rec, "generate")))
          => /\ rec.calls[1] = "getUserById"
             /\ rec.fetched
             /\ rec.user.exists
             /\ rec.user.hasCredits
             /\ rec.user.credits >= 1
        /\ (rec.kind = "upload" /\ rec.fetched /\ ~ rec.user.exists)
          => /\ rec.pc = "done"
             /\ rec.response.status = 404
             /\ rec.calls = <<"getUserById">>
             /\ rec.tempFile = "none"
             /\ WroteNothing(r)

C6_Witness ==
  \E r \in Reqs :
    /\ req[r].kind = "upload"
    /\ req[r].calls = <<"getUserById", "vision", "generate">>
    /\ req[r].user.credits >= 1

\* C7: an upload-image request without userId, without the image file or
\* with an empty file buffer ends at once with a 400 response: it has issued
\* no call (no store lookup, no AI call), written no file, and changed
\* nothing.
C7_IntakeRejected ==
  \A r \in Reqs :
    LET rec == req[r]
    IN  (/\ rec.kind = "upload"
         /\ \/ rec.userId = NoUserId
            \/ ~ rec.file.present
            \/ rec.file.size = 0)
        => /\ rec.pc = "done"
           /\ rec.response.status = 400
           /\ rec.calls = <<>>
           /\ rec.tempFile = "none"
           /\ WroteNothing(r)
           /\ rec.solo
           /\ UserUntouched(r)

\* An empty file is rejected, for a user who holds credits.
C7_Witness ==
  \E r \in Reqs :
    /\ req[r].kind = "upload"
    /\ req[r].userId \in UserIds
    /\ req[r].file.present
    /\ req[r].file.size = 0
    /\ req[r].response.status = 400
    /\ users[req[r].userId].credits >= 1

\* C8: when the vision model's description starts with the refusal prefix,
\* the upload-image request ends with a 400 response, having issued no
\* generation call and no credit adjustment, with no record of its own.
C8_VisionRefusalEnds ==
  \A r \in Reqs :
    LET rec == req[r]
    IN  (/\ rec.kind = "upload"
         /\ Len(rec.description) >= Len(RefusalPrefix)
         /\ SubSeq(rec.description, 1, Len(RefusalPrefix)) = RefusalPrefix)
        => /\ rec.pc = "done"
           /\ rec.response.status = 400
           /\ rec.calls = <<"getUserById", "vision">>
           /\ WroteNothing(r)
           /\ rec.solo => UserUntouched(r)

C8_Witness ==
  \E r \in Reqs :
    /\ req[r].kind = "upload"
    /\ req[r].description # RefusalPrefix
    /\ StartsWith(req[r].description, RefusalPrefix)
    /\ req[r].response.status = 400

MentionsInvalidInputImage(message) ==
  \E i \in 1..Len(message) :
    /\ i + Len("Invalid input image") - 1 <= Len(message)
    /\ SubSeq(message, i, i + Len("Invalid input image") - 1) = "Invalid input image"

\* C9: when the generation call fails the upload-image request responds 400
\* if the provider's message contains "Invalid input image" and 500 for every
\* other provider error, and 500 when the reply has no image URL; in each
\* case no credit adjustment is issued and no record is the request's.
C9_GenerationFailure ==
  \A r \in Reqs :
    LET rec == req[r]
    IN  /\ (rec.kind = "upload" /\ rec.generation = "error")
          => rec.response.status =
               IF MentionsInvalidInputImage(rec.providerError) THEN 400 ELSE 500
        /\ (rec.kind = "upload" /\ rec.generation = "no url")
          => rec.response.status = 500
        /\ (rec.kind = "upload" /\ rec.generation \in {"error", "no url"})
          => /\ rec.pc = "done"
             /\ rec.calls = <<"getUserById", "vision", "generate">>
             /\ WroteNothing(r)
             /\ rec.solo => UserUntouched(r)

\* The provider's message mentions the invalid input image after other text.
C9_Witness ==
  \E r \in Reqs :
    /\ req[r].kind = "upload"
    /\ req[r].generation = "error"
    /\ MentionsInvalidInputImage(req[r].providerError)
    /\ ~ StartsWith(req[r].providerError, "Invalid input image")
    /\ req[r].response.status = 400

\* C10: an upload-image request in which an awaited call threw has ended with
\* a JSON error response of status 400 or 500; none is left without a
\* response.
C10_ThrowAnswered ==
  \A r \in Reqs :
    (req[r].kind = "upload" /\ req[r].thrown)
    => /\ req[r].pc = "done"
       /\ req[r].response.status \in {400, 500}

\* C11: an upload-image request that has ended after writing the copy of the
\* upload to the uploads directory has scheduled the deletion of that copy,
\* whatever its outcome.
C11_CleanupScheduled ==
  \A r \in Reqs :
    (/\ req[r].kind = "upload"
     /\ req[r].pc \in {"done", "unhandled"}
     /\ req[r].tempFile # "none")
    => req[r].tempFile = "cleanup scheduled"

-----------------------------------------------------------------------------
(* Requests processed one at a time: a request arrives only when no other   *)
(* request is in flight.                                                    *)

Quiet == \A q \in Reqs : ~ InFlight(q)

SeqNext ==
  \E r \in Reqs :
    \/ Quiet /\ UserCreate(r)
    \/ Quiet /\ VerifyPayment(r)
    \/ Quiet /\ UploadImage(r)
    \/ Quiet /\ Lookup(r)
    \/ Quiet /\ CreateOrder(r)
    \/ VerifyPaymentGotUser(r)
    \/ UploadImageGotUser(r)
    \/ UploadImageDescribed(r)
    \/ UploadImageGenerated(r)
    \/ LookupDone(r)
    \/ CreateOrderDone(r)
    \/ CreateOrUpdateUserGet(r)
    \/ CreateOrUpdateUserWrite(r)
    \/ UpdateUserCreditsGet(r)
    \/ UpdateUserCreditsWrite(r)
    \/ SaveGeneratedImage(r)
    \/ SaveTransaction(r)

SeqSpec == Init /\ [][SeqNext]_vars

RECURSIVE SumCredits(_)
SumCredits(txs) ==
  IF txs = <<>> THEN 0 ELSE Head(txs).credits + SumCredits(Tail(txs))

\* The sum of the credits deltas of the transactions recorded for the user.
LedgerBalance(u) == SumCredits(SelectSeq(transactions, LAMBDA t : t.userId = u))

\* C12: with requests processed one at a time, in every state with no request
\* in flight each user's balance (0 for no user or no credits field) equals
\* the sum of the credits deltas of the user's transactions.
C12_BalanceIsLedgerSum ==
  Quiet => \A u \in UserIds : CreditsOrZero(users[u]) = LedgerBalance(u)

\* C13: with requests processed one at a time, no user's balance is ever
\* below 0.
C13_NeverNegativeInSequence ==
  \A u \in UserIds : CreditsOrZero(users[u]) >= 0

-----------------------------------------------------------------------------
(* Concurrent upload-image requests of a user whose balance is 1: the store *)
(* as a verified payment of 1 credit for a new user leaves it.              *)

Buyer == "u1"

RaceInit ==
  /\ users = [u \in UserIds |-> IF u = Buyer THEN UserDoc(TRUE, 1) ELSE AbsentUser]
  /\ images = <<>>
  /\ transactions = <<PurchaseTx(0, Buyer, "order_A", PaidId, 1)>>
  /\ req = [r \in Reqs |-> IdleRequest]

RaceNext ==
  \E r \in Reqs :
    \/ UploadImage(r)
    \/ UploadImageGotUser(r)
    \/ UploadImageDescribed(r)
    \/ UploadImageGenerated(r)
    \/ UpdateUserCreditsGet(r)
    \/ UpdateUserCreditsWrite(r)
    \/ SaveGeneratedImage(r)
    \/ SaveTransaction(r)

RaceSpec == RaceInit /\ [][RaceNext]_vars

\* The image-transformation transactions recorded for the user.
Transformations(u) ==
  {i \in TransactionsOf(u) : transactions[i].type = "image-transformation"}

\* C14: when upload-image requests of a user whose balance was 1 have
\* appended two (or more) -1 transactions, each has passed the balance check
\* and settled: the ledger sums to 1 minus their number, the stored balance
\* is at most 0, and it is negative or differs from the ledger sum.
C14_DoubleSpend ==
  LET n == Cardinality(Transformations(Buyer))
      balance == users[Buyer].credits
  IN  n >= 2
      => /\ \A i \in Transformations(Buyer) : transactions[i].credits = -1
         /\ LedgerBalance(Buyer) = 1 - n
         /\ balance <= 0
         /\ (balance < 0 \/ balance # LedgerBalance(Buyer))

\* Both requests read balance 1 before either wrote: the stored balance is 0
\* while the ledger sums to -1.
C14_Witness ==
  /\ Cardinality(Transformations(Buyer)) = 2
  /\ Cardinality(ImagesOf(Buyer)) = 2
  /\ users[Buyer].credits = 0
  /\ LedgerBalance(Buyer) = -1

-----------------------------------------------------------------------------
(* The user functions of the repository (src/unnamed/part_000) called       *)
(* directly, as test-firebase.js calls them, by two callers whose calls may *)
(* interleave. Here a user document carries every field the functions       *)
(* write: name, credits, createdAt, updatedAt. req holds the callers'       *)
(* frames; images and transactions stay empty.                              *)

MaxTime == 2              \* the clock's last instant
MaxBalance == 1           \* balances updateUserCredits is followed to

Times == 1..MaxTime
Callers == {"a", "b"}

\* A user document; createdAt / updatedAt 0 and name "": no such field.
NoDocument ==
  [exists |-> FALSE, name |-> "", hasCredits |-> FALSE, credits |-> 0,
   createdAt |-> 0, updatedAt |-> 0]

\* userData of createOrUpdateUser: as test-firebase.js and POST
\* /api/user/create pass it ({id, name?, credits?}), and as verify-payment
\* passes it ({id, credits: 0, createdAt}); a caller may also send updatedAt.
NoData ==
  [id |-> "", name |-> "", hasCredits |-> FALSE, credits |-> 0,
   createdAt |-> 0, updatedAt |-> 0]

UserDatas ==
  {d \in [id : UserIds, name : {"", "Test User"}, hasCredits : BOOLEAN,
          credits : {0, 1}, createdAt : {0} \cup Times, updatedAt : {0, 1}] :
     /\ d.name = "" => d.credits = 0
     /\ d.name # "" => d.hasCredits /\ d.credits = 1
     /\ d.createdAt # 0 => d.name = "" /\ d.hasCredits
     /\ d.createdAt # 0 => d.createdAt = 1 /\ d.credits = 0
     /\ d.updatedAt # 0 => d.createdAt = 1}

\* What getUserById returns: null, or {id, ...data()}.
Null ==
  [found |-> FALSE, id |-> "", name |-> "", hasCredits |-> FALSE, credits |-> 0,
   createdAt |-> 0, updatedAt |-> 0]

UserRecord(id, document) ==
  IF ~ document.exists
    THEN Null
    ELSE [found |-> TRUE, id |-> id, name |-> document.name,
          hasCredits |-> document.hasCredits, credits |-> document.credits,
          createdAt |-> document.createdAt, updatedAt |-> document.updatedAt]

\* A caller's frame: the call, its position, its locals (of the snapshot
\* getDoc returned, whether it exists), what it returned or threw; and, as history, the stored document when the call was made,
\* whether the call has written, and whether it has run with no other call
\* for the same id in flight.
IdleCall ==
  [op |-> "none", pc |-> "idle", id |-> "", data |-> NoData, delta |-> 0,
   fetched |-> FALSE, found |-> FALSE, createdAt |-> 0, updatedAt |-> 0,
   updatedCredits |-> 0, returned |-> 0, record |-> Null, list |-> <<>>,
   error |-> "",
   document0 |-> NoDocument, wrote |-> FALSE, solo |-> TRUE,
   \* of updateUserCredits: the balance it read, and the stored balance its
   \* write replaced
   balance |-> 0, overwrote |-> 0]

Running(c) == req[c].pc \notin {"idle", "returned"}

\* A frame that has returned is kept in the state it returned in; the next
\* step of any caller clears it.
Cleared(c) == IF req[c].pc = "returned" THEN IdleCall ELSE req[c]

Concurrent(c, frame) == Running(c) /\ req[c].id = frame.id

\* The history of a call is kept while it runs alone.
NotAlone(frame) == [frame EXCEPT !.solo = FALSE, !.document0 = NoDocument]

\* Caller b calls only while a call of caller a is in flight.
Call(c, frame) ==
  LET new == [frame EXCEPT
                !.document0 = IF frame.id \in UserIds THEN users[frame.id]
                              ELSE NoDocument]
  IN  /\ ~ Running(c)
      /\ c = "b" => Running("a")
      /\ req' = [o \in Callers |->
                   IF o = c
                     THEN IF \E x \in Callers \ {c} : Concurrent(x, frame)
                            THEN NotAlone(new) ELSE new
                   ELSE IF Concurrent(o, frame) THEN NotAlone(req[o])
                   ELSE Cleared(o)]

Step(c, frame) == req' = [o \in Callers |-> IF o = c THEN frame ELSE Cleared(o)]

Return(frame) == [frame EXCEPT !.pc = "returned"]

\* catch (error) { console.error(..); throw error; }
Throw(frame, error) == [frame EXCEPT !.pc = "returned", !.error = error]

\* new Date(): the clock does not run backwards. An instant it returns is
\* no earlier than any it has returned that is still held, in a stored
\* updatedAt, in a stored record or in a write on its way.
LastInstant ==
  LET held == {users[u].updatedAt : u \in UserIds}
                \cup {req[c].updatedAt : c \in Callers}
                \cup {req[c].createdAt : c \in Callers}
                \cup {images[i].createdAt : i \in DOMAIN images}
                \cup {transactions[i].createdAt : i \in DOMAIN transactions}
  IN  CHOOSE t \in held : \A o \in held : o <= t

Clock(t) == t \in Times /\ t >= LastInstant

UsersInit ==
  /\ users = [u \in UserIds |-> NoDocument]
  /\ images = <<>>
  /\ transactions = <<>>
  /\ req = [c \in Callers |-> IdleCall]

\* getUserById(userId) is called: getDoc is issued
CallGetUserById(c) ==
  /\ \E id \in UserIds :
       Call(c, [IdleCall EXCEPT !.op = "getUserById", !.id = id, !.pc = "getDoc"])
  /\ UNCHANGED <<users, images, transactions>>

\* part_000:37-46
GetUserByIdReturns(c) ==
  LET frame == req[c]
  IN  /\ frame.op = "getUserById"
      /\ frame.pc = "getDoc"
      /\ \/ Step(c, Return([frame EXCEPT !.fetched = TRUE, !.found = users[frame.id].exists,
                                         !.record = UserRecord(frame.id, users[frame.id])]))
         \/ Step(c, Throw(frame, "unavailable"))
      /\ UNCHANGED <<users, images, transactions>>

\* createOrUpdateUser(userData) is called: getDoc is issued
CallCreateOrUpdateUser(c) ==
  /\ \E data \in UserDatas :
       Call(c, [IdleCall EXCEPT !.op = "createOrUpdateUser", !.id = data.id,
                                !.data = data, !.pc = "getDoc"])
  /\ UNCHANGED <<users, images, transactions>>

\* part_000:55-69: getDoc returned; updateDoc or setDoc is issued with the
\* instants new Date() returns
CreateOrUpdateUserGetDoc(c) ==
  LET frame == req[c]
      snap == users[frame.id]
      got == [frame EXCEPT !.fetched = TRUE, !.found = snap.exists]
  IN  /\ frame.op = "createOrUpdateUser"
      /\ frame.pc = "getDoc"
      /\ \/ IF snap.exists
              THEN \E t \in Times :
                     /\ Clock(t)
                     /\ Step(c, [got EXCEPT !.pc = "updateDoc", !.updatedAt = t])
              ELSE \E t1, t2 \in Times :
                     /\ Clock(t1)
                     /\ t1 <= t2
                     /\ Step(c, [got EXCEPT !.pc = "setDoc", !.createdAt = t1,
                                            !.updatedAt = t2])
         \/ Step(c, Throw(frame, "unavailable"))
      /\ UNCHANGED <<users, images, transactions>>

\* Only updatedAt is written to an existing document.
UpdateDocTimestampOnly(stored, data, updatedAt) ==
  [stored EXCEPT !.updatedAt = updatedAt]

\* updateDoc(ref, {...userDataWithoutId, updatedAt}): the supplied fields
\* and updatedAt replace those of the stored document
UpdateDoc(stored, data, updatedAt) ==
  [exists |-> TRUE,
   name |-> IF data.name # "" THEN data.name ELSE stored.name,
   hasCredits |-> data.hasCredits \/ stored.hasCredits,
   credits |-> IF data.hasCredits THEN data.credits ELSE stored.credits,
   createdAt |-> IF data.createdAt # 0 THEN data.createdAt ELSE stored.createdAt,
   updatedAt |-> updatedAt]

\* setDoc(ref, {...userDataWithoutId, createdAt, updatedAt}): the document
\* is the supplied fields, with createdAt and updatedAt as set here
SetDoc(data, createdAt, updatedAt) ==
  [exists |-> TRUE, name |-> data.name, hasCredits |-> data.hasCredits,
   credits |-> data.credits, createdAt |-> createdAt, updatedAt |-> updatedAt]

\* part_000:59-72: updateDoc / setDoc returned
CreateOrUpdateUserWrites(c) ==
  LET frame == req[c]
      u == frame.id
  IN  /\ frame.op = "createOrUpdateUser"
      /\ frame.pc \in {"updateDoc", "setDoc"}
      /\ \/ /\ users' = [users EXCEPT
                           ![u] = IF frame.pc = "updateDoc"
                                    THEN UpdateDoc(@, frame.data, frame.updatedAt)
                                    ELSE SetDoc(frame.data, frame.createdAt,
                                                frame.updatedAt)]
            /\ Step(c, Return([frame EXCEPT !.wrote = TRUE]))
         \/ /\ Step(c, Throw(frame, "unavailable"))
            /\ UNCHANGED users
      /\ UNCHANGED <<images, transactions>>

\* updateUserCredits(userId, credits) is called: getDoc is issued
CallUpdateUserCredits(c) ==
  /\ \E id \in UserIds, delta \in {-1, 1} :
       Call(c, [IdleCall EXCEPT !.op = "updateUserCredits", !.id = id,
                                  !.delta = delta, !.pc = "getDoc"])
  /\ UNCHANGED <<users, images, transactions>>

\* A missing document is not told from an existing one.
UserNotFoundNever(snap) == FALSE

\* part_000:84, !userDocSnap.exists()
UserNotFound(snap) == ~ snap.exists

\* part_000:82-94: getDoc returned; not found is thrown, or updateDoc is
\* issued with the new balance
UpdateUserCreditsGetDoc(c) ==
  LET frame == req[c]
      snap == users[frame.id]
      got == [frame EXCEPT !.fetched = TRUE, !.found = snap.exists]
  IN  /\ frame.op = "updateUserCredits"
      /\ frame.pc = "getDoc"
      /\ \/ IF UserNotFound(snap)
              THEN Step(c, Throw(got, "not found"))
              ELSE \E t \in Times :
                     /\ Clock(t)
                     /\ UpdatedCredits(snap, frame.delta) \in -MaxBalance..MaxBalance
                     /\ Step(c, [got EXCEPT
                                   !.pc = "updateDoc", !.updatedAt = t,
                                   !.balance = CreditsOrZero(snap),
                                   !.updatedCredits = UpdatedCredits(snap, frame.delta)])
         \/ Step(c, Throw(frame, "unavailable"))
      /\ UNCHANGED <<users, images, transactions>>

\* part_000:91-96: updateDoc(ref, {credits, updatedAt}) returned
UpdateUserCreditsUpdateDoc(c) ==
  LET frame == req[c]
      u == frame.id
  IN  /\ frame.op = "updateUserCredits"
      /\ frame.pc = "updateDoc"
      /\ \/ /\ users' = [users EXCEPT
                           ![u] = [@ EXCEPT !.exists = TRUE, !.hasCredits = TRUE,
                                            !.credits = frame.updatedCredits,
                                            !.updatedAt = frame.updatedAt]]
            /\ Step(c, Return([frame EXCEPT !.wrote = TRUE,
                                            !.overwrote = CreditsOrZero(users[u]),
                                            !.returned = frame.updatedCredits]))
         \/ /\ Step(c, Throw(frame, "unavailable"))
            /\ UNCHANGED users
      /\ UNCHANGED <<images, transactions>>

UsersNext ==
  \E c \in Callers :
    \/ CallGetUserById(c)
    \/ GetUserByIdReturns(c)
    \/ CallCreateOrUpdateUser(c)
    \/ CreateOrUpdateUserGetDoc(c)
    \/ CreateOrUpdateUserWrites(c)
    \/ CallUpdateUserCredits(c)
    \/ UpdateUserCreditsGetDoc(c)
    \/ UpdateUserCreditsUpdateDoc(c)

UsersSpec == UsersInit /\ [][UsersNext]_vars

-----------------------------------------------------------------------------
(* updateUserCredits called by the two callers for a user whose document    *)
(* createOrUpdateUser({id, credits: 0}) has written.                        *)

CreditsInit ==
  /\ users = [u \in UserIds |->
                SetDoc([NoData EXCEPT !.id = u, !.hasCredits = TRUE], 1, 1)]
  /\ images = <<>>
  /\ transactions = <<>>
  /\ req = [c \in Callers |-> IdleCall]

CreditsNext ==
  \E c \in Callers :
    \/ CallUpdateUserCredits(c)
    \/ UpdateUserCreditsGetDoc(c)
    \/ UpdateUserCreditsUpdateDoc(c)

CreditsSpec == CreditsInit /\ [][CreditsNext]_vars

-----------------------------------------------------------------------------
(* The image and transaction functions of the repository called directly,  *)
(* by two callers whose calls may interleave. A record carries its userId   *)
(* and the createdAt the function gives it; its place in the collection is  *)
(* its document id. The users collection stays empty. Caller a saves and    *)
(* lists; caller b saves while a call of caller a is in flight.             *)

MaxRecords == 3           \* records saved, to both collections together

\* The users records are saved for: those asked for, and another.
Owners == UserIds \cup {"u2"}

Record(userId, createdAt) == [userId |-> userId, createdAt |-> createdAt]

\* The ids of the documents of a collection with where('userId', '==', userId)
Matching(coll, userId) == {i \in DOMAIN coll : coll[i].userId = userId}

\* The query lists the oldest record first.
QueryAscending(coll, userId) ==
  LET ids == Matching(coll, userId)
  IN  {s \in [1..Cardinality(ids) -> ids] :
         /\ \A i, j \in DOMAIN s : i # j => s[i] # s[j]
         /\ \A i, j \in DOMAIN s : i < j => coll[s[i]].createdAt <= coll[s[j]].createdAt}

\* query(coll, where('userId', '==', userId), orderBy('createdAt', 'desc')):
\* what getDocs may return, as document ids. Records of one instant come in
\* the order of their generated ids, which is any.
Query(coll, userId) ==
  LET ids == Matching(coll, userId)
  IN  {s \in [1..Cardinality(ids) -> ids] :
         /\ \A i, j \in DOMAIN s : i # j => s[i] # s[j]
         /\ \A i, j \in DOMAIN s : i < j => coll[s[i]].createdAt >= coll[s[j]].createdAt}

\* Records saved and addDoc calls on their way
Saved ==
  Len(images) + Len(transactions)
    + Cardinality({c \in Callers : req[c].pc = "addDoc"})

RecordsInit ==
  /\ users = [u \in UserIds |-> NoDocument]
  /\ images = <<>>
  /\ transactions = <<>>
  /\ req = [c \in Callers |-> IdleCall]

\* part_000:106-109: saveGeneratedImage(imageData) is called; addDoc is
\* issued with createdAt: new Date()
CallSaveGeneratedImage(c) ==
  /\ Saved < MaxRecords
  /\ \E userId \in Owners, t \in Times :
       /\ Clock(t)
       /\ Call(c, [IdleCall EXCEPT !.op = "saveGeneratedImage", !.id = userId,
                                   !.createdAt = t, !.pc = "addDoc"])
  /\ UNCHANGED <<users, images, transactions>>

\* part_000:106-115: addDoc returned
SaveGeneratedImageAdds(c) ==
  LET frame == req[c]
  IN  /\ frame.op = "saveGeneratedImage"
      /\ frame.pc = "addDoc"
      /\ \/ /\ images' = AddDoc(images, Record(frame.id, frame.createdAt))
            /\ Step(c, Return([frame EXCEPT !.wrote = TRUE,
                                            !.returned = Len(images) + 1]))
         \/ /\ Step(c, Throw(frame, "unavailable"))
            /\ UNCHANGED images
      /\ UNCHANGED <<users, transactions>>

\* part_000:120-126: getUserImages(userId) is called; getDocs is issued
CallGetUserImages(c) ==
  /\ c = "a"
  /\ \E userId \in UserIds :
       Call(c, [IdleCall EXCEPT !.op = "getUserImages", !.id = userId,
                                !.pc = "getDocs"])
  /\ UNCHANGED <<users, images, transactions>>

\* part_000:126-136: getDocs returned
GetUserImagesReturns(c) ==
  LET frame == req[c]
  IN  /\ frame.op = "getUserImages"
      /\ frame.pc = "getDocs"
      /\ \/ \E docs \in Query(images, frame.id) :
              Step(c, Return([frame EXCEPT !.fetched = TRUE, !.list = docs]))
         \/ Step(c, Throw(frame, "unavailable"))
      /\ UNCHANGED <<users, images, transactions>>

\* part_000:142-145: saveTransaction(transactionData) is called; addDoc is
\* issued with createdAt: new Date()
CallSaveTransaction(c) ==
  /\ Saved < MaxRecords
  /\ \E userId \in Owners, t \in Times :
       /\ Clock(t)
       /\ Call(c, [IdleCall EXCEPT !.op = "saveTransaction", !.id = userId,
                                   !.createdAt = t, !.pc = "addDoc"])
  /\ UNCHANGED <<users, images, transactions>>

\* part_000:142-151: addDoc returned
SaveTransactionAdds(c) ==
  LET frame == req[c]
  IN  /\ frame.op = "saveTransaction"
      /\ frame.pc = "addDoc"
      /\ \/ /\ transactions' = AddDoc(transactions, Record(frame.id, frame.createdAt))
            /\ Step(c, Return([frame EXCEPT !.wrote = TRUE,
                                            !.returned = Len(transactions) + 1]))
         \/ /\ Step(c, Throw(frame, "unavailable"))
            /\ UNCHANGED transactions
      /\ UNCHANGED <<users, images>>

\* part_000:156-162: getUserTransactions(userId) is called; getDocs is issued
CallGetUserTransactions(c) ==
  /\ c = "a"
  /\ \E userId \in UserIds :
       Call(c, [IdleCall EXCEPT !.op = "getUserTransactions", !.id = userId,
                                !.pc = "getDocs"])
  /\ UNCHANGED <<users, images, transactions>>

\* part_000:162-172: getDocs returned
GetUserTransactionsReturns(c) ==
  LET frame == req[c]
  IN  /\ frame.op = "getUserTransactions"
      /\ frame.pc = "getDocs"
      /\ \/ \E docs \in Query(transactions, frame.id) :
              Step(c, Return([frame EXCEPT !.fetched = TRUE, !.list = docs]))
         \/ Step(c, Throw(frame, "unavailable"))
      /\ UNCHANGED <<users, images, transactions>>

RecordsNext ==
  \E c \in Callers :
    \/ CallSaveGeneratedImage(c)
    \/ SaveGeneratedImageAdds(c)
    \/ CallGetUserImages(c)
    \/ GetUserImagesReturns(c)
    \/ CallSaveTransaction(c)
    \/ SaveTransactionAdds(c)
    \/ CallGetUserTransactions(c)
    \/ GetUserTransactionsReturns(c)

RecordsSpec == RecordsInit /\ [][RecordsNext]_vars

-----------------------------------------------------------------------------
(* Properties of the repository functions *)

ReturnedAlone(c, op) ==
  /\ req[c].op = op
  /\ req[c].pc = "returned"
  /\ req[c].error = ""
  /\ req[c].solo

\* C15: a call of updateUserCredits whose getDoc found no document has
\* thrown the not-found error and has written nothing; with no other call
\* for that id in flight meanwhile, the store still has no document for it.
C15_NotFoundLeavesStore ==
  \A c \in Callers :
    (req[c].op = "updateUserCredits" /\ req[c].fetched /\ ~ req[c].found)
    => /\ req[c].pc = "returned"
       /\ req[c].error = "not found"
       /\ ~ req[c].wrote
       /\ req[c].solo => users[req[c].id] = NoDocument

C15_Witness ==
  \E c \in Callers :
    /\ req[c].op = "updateUserCredits"
    /\ req[c].fetched
    /\ ~ req[c].found
    /\ req[c].solo
    /\ req[c].error = "not found"
    /\ ~ users[req[c].id].exists

\* C16: a call of updateUserCredits(id, delta) that returned, having run
\* with no other call for that id in flight, on a document with balance b (0
\* for a missing credits field) has returned b + delta, and getUserById(id)
\* now reports credits b + delta and every other field but updatedAt as
\* before the call.
C16_AdjustCredits ==
  \A c \in Callers :
    ReturnedAlone(c, "updateUserCredits")
    => LET id == req[c].id
           before == UserRecord(id, req[c].document0)
           after == UserRecord(id, users[id])
           sum == CreditsOrZero(req[c].document0) + req[c].delta
       IN  /\ before.found
           /\ req[c].returned = sum
           /\ after = [before EXCEPT !.hasCredits = TRUE, !.credits = sum,
                                     !.updatedAt = after.updatedAt]

\* The balance of a named user whose document has no credits field is
\* adjusted.
C16_Witness ==
  \E c \in Callers :
    /\ ReturnedAlone(c, "updateUserCredits")
    /\ ~ req[c].document0.hasCredits
    /\ req[c].document0.exists
    /\ req[c].delta = 1
    /\ users[req[c].id].credits = 1

\* C17: the createdAt of a user document is written once, by the insert:
\* no later step changes it.
C17_CreatedAtWrittenOnce ==
  [][\A u \in UserIds : users[u].exists => users'[u].createdAt = users[u].createdAt]_vars

\* What C18 promises of createOrUpdateUser(data) followed by getUserById:
\* the record has data's id and data's name and credits where supplied.
RoundTrip(data, record) ==
  /\ record.found
  /\ record.id = data.id
  /\ data.name # "" => record.name = data.name
  /\ data.hasCredits => record.hasCredits /\ record.credits = data.credits

\* The same of the timestamps data supplies.
RoundTripTimestamps(data, record) ==
  /\ data.createdAt # 0 => record.createdAt = data.createdAt
  /\ data.updatedAt # 0 => record.updatedAt = data.updatedAt

\* getUserById whose getDoc found no document has returned null and thrown
\* nothing.
AbsentIsNull ==
  \A c \in Callers :
    (req[c].op = "getUserById" /\ req[c].fetched /\ ~ req[c].found)
    => /\ req[c].pc = "returned"
       /\ req[c].error = ""
       /\ req[c].record = Null

\* C18 as stated: after createOrUpdateUser(data) returned, having run with
\* no other call for that id in flight, getUserById(data.id) reports data's
\* id and every field data supplies; getUserById of an absent id is null.
C18_AsStated ==
  /\ \A c \in Callers :
       ReturnedAlone(c, "createOrUpdateUser")
       => /\ RoundTrip(req[c].data, UserRecord(req[c].id, users[req[c].id]))
          /\ RoundTripTimestamps(req[c].data, UserRecord(req[c].id, users[req[c].id]))
  /\ AbsentIsNull

\* C18, amended: the same, of every supplied field but createdAt and
\* updatedAt.
C18_RoundTrip ==
  /\ \A c \in Callers :
       ReturnedAlone(c, "createOrUpdateUser")
       => RoundTrip(req[c].data, UserRecord(req[c].id, users[req[c].id]))
  /\ AbsentIsNull

\* An existing document without a name is given name and credits.
C18_Witness ==
  \E c \in Callers :
    /\ ReturnedAlone(c, "createOrUpdateUser")
    /\ req[c].document0.exists
    /\ req[c].document0.name = ""
    /\ req[c].data.name # ""
    /\ req[c].data.hasCredits
    /\ users[req[c].id].credits = req[c].data.credits

\* The list holds, once each, exactly the records of the collection whose
\* userId is the one asked for, from the newest createdAt to the oldest.
ListsAll(list, coll, userId) ==
  /\ \A i \in DOMAIN coll : coll[i].userId = userId => \E k \in DOMAIN list : list[k] = i
  /\ \A k \in DOMAIN list : list[k] \in DOMAIN coll /\ coll[list[k]].userId = userId
  /\ \A k, l \in DOMAIN list : k # l => list[k] # list[l]
  /\ \A k, l \in DOMAIN list : k < l => coll[list[k]].createdAt >= coll[list[l]].createdAt

\* C19: getUserImages(id) and getUserTransactions(id), when they return,
\* return every record appended so far whose userId is id, no record of
\* another user, each once, ordered from the newest createdAt to the oldest.
C19_ListsByUserNewestFirst ==
  \A c \in Callers :
    /\ (req[c].op = "getUserImages" /\ req[c].fetched)
         => ListsAll(req[c].list, images, req[c].id)
    /\ (req[c].op = "getUserTransactions" /\ req[c].fetched)
         => ListsAll(req[c].list, transactions, req[c].id)

\* The user's older transaction was appended after the newer one, and the
\* newer one is listed first.
C19_Witness ==
  \E c \in Callers :
    /\ req[c].op = "getUserTransactions"
    /\ req[c].fetched
    /\ req[c].list = <<1, 2>>
    /\ transactions[1].createdAt > transactions[2].createdAt
    /\ \E i \in DOMAIN images : images[i].userId # req[c].id

\* The collection keeps every document it holds, unchanged and in place.
Kept(coll, next) ==
  /\ Len(next) >= Len(coll)
  /\ \A i \in DOMAIN coll : next[i] = coll[i]

\* C20: no step of any endpoint modifies or removes an image record or a
\* transaction record once appended, and none deletes a user record.
C20_AppendOnly ==
  [][/\ Kept(images, images')
     /\ Kept(transactions, transactions')
     /\ \A u \in UserIds : users[u].exists => users'[u].exists]_vars

\* A purchase was recorded, and a later upload-image request has appended
\* its image and its transaction after it.
C20_Witness ==
  /\ Len(transactions) = 2
  /\ transactions[1].type = "purchase"
  /\ transactions[2].type = "image-transformation"
  /\ Len(images) = 1
  /\ \A u \in UserIds : users[u].exists

\* What C21 promises of every create-order request: the options passed to
\* the payment provider are amount price * 100, currency INR and notes with
\* the request's userId and credits; the request writes nothing.
OrderAsRequested(r) ==
  LET rec == req[r]
  IN  /\ rec.calls = <<"orders.create">>
      /\ rec.options.amount = rec.price * 100
      /\ rec.options.currency = "INR"
      /\ rec.options.notes.userId = rec.userId
      /\ rec.options.notes.credits = rec.credits
      /\ WroteNothing(r)
      /\ rec.solo => UserUntouched(r)

OrderReturned(r) ==
  /\ req[r].response.status = 200
  /\ req[r].response.amount = req[r].price * 100
  /\ req[r].response.currency = "INR"

\* C21 as stated: every create-order request passes these options, changes
\* nothing, and its response returns the amount and the currency.
C21_AsStated ==
  \A r \in Reqs :
    req[r].kind = "order"
    => /\ OrderAsRequested(r)
       /\ req[r].pc = "done" => OrderReturned(r)

\* C21, amended: the response returns the amount and the currency when the
\* payment provider returned the order; when its call threw, the response is
\* a 500 error.
C21_OrderAmount ==
  \A r \in Reqs :
    req[r].kind = "order"
    => /\ OrderAsRequested(r)
       /\ (req[r].pc = "done" /\ ~ req[r].thrown) => OrderReturned(r)
       /\ (req[r].pc = "done" /\ req[r].thrown) => req[r].response.status = 500

\* An order is returned for a user who holds credits.
C21_Witness ==
  \E r \in Reqs :
    /\ req[r].kind = "order"
    /\ req[r].pc = "done"
    /\ req[r].price = 5
    /\ req[r].response.amount = 500
    /\ req[r].solo
    /\ users[req[r].userId].credits >= 1

-----------------------------------------------------------------------------
(* Upload-image requests in either runtime mode, for a user who holds a     *)
(* credit.                                                                  *)

DetailsInit ==
  /\ users = [u \in UserIds |-> IF u = Buyer THEN UserDoc(TRUE, 1) ELSE AbsentUser]
  /\ images = <<>>
  /\ transactions = <<PurchaseTx(0, Buyer, "order_A", PaidId, 1)>>
  /\ \E env \in NodeEnvs : req = [r \in Reqs |-> [IdleRequest EXCEPT !.env = env]]

DetailsSpec == DetailsInit /\ [][RaceNext]_vars

\* C22: in production mode no error response of an upload-image request
\* carries a details value.
C22_NoDetailsInProduction ==
  \A r \in Reqs :
    (/\ req[r].kind = "upload"
     /\ req[r].env = "production"
     /\ req[r].response.status >= 400)
    => req[r].response.details = ""

\* C23: a call of updateUserCredits that returned has left the stored
\* balance at the balance it read plus its delta, whatever was written
\* since it read: when another call's write landed between its read and its
\* write, the stored balance is not that write's balance plus the delta, and
\* that update is lost.
C23_LastWriteWins ==
  \A c \in Callers :
    (req[c].op = "updateUserCredits" /\ req[c].pc = "returned" /\ req[c].error = "")
    => /\ users[req[c].id].credits = req[c].balance + req[c].delta
       /\ req[c].returned = req[c].balance + req[c].delta
       /\ req[c].overwrote # req[c].balance
            => users[req[c].id].credits # req[c].overwrote + req[c].delta

\* Two calls with delta 1 both read balance 0; the first wrote 1, the second
\* has written 1 over it: the stored balance is 1, not 2.
C23_Witness ==
  \E c \in Callers :
    /\ req[c].op = "updateUserCredits"
    /\ req[c].pc = "returned"
    /\ req[c].error = ""
    /\ req[c].delta = 1
    /\ req[c].balance = 0
    /\ req[c].overwrote = 1
    /\ users[req[c].id].credits = 1

IsPrefix(s, t) == Len(s) <= Len(t) /\ s = SubSeq(t, 1, Len(s))

\* index.js:292, 446, 539, 595, 599, 611
UploadChain ==
  <<"getUserById", "vision", "generate", "updateUserCredits", "saveGeneratedImage",
    "saveTransaction">>

\* The call a running upload-image request is waiting for.
Awaited(rec) ==
  CASE rec.pc = "getUser" -> "getUserById"
    [] rec.pc = "vision" -> "vision"
    [] rec.pc = "generate" -> "generate"
    [] rec.pc \in {"uucGet", "uucWrite"} -> "updateUserCredits"
    [] rec.pc = "saveImage" -> "saveGeneratedImage"
    [] rec.pc = "saveTx" -> "saveTransaction"
    [] OTHER -> "none"

\* C24: the external calls an upload-image request has issued are a prefix
\* of the chain user lookup, vision, generation, credit adjustment, image
\* append, transaction append; while the request runs it waits for the last
\* call it issued; a request one of whose calls failed has ended.
C24_SequentialChain ==
  \A r \in Reqs :
    LET rec == req[r]
    IN  rec.kind = "upload"
        => /\ IsPrefix(rec.calls, UploadChain)
           /\ rec.pc \notin Terminal
                => /\ rec.calls # <<>>
                   /\ rec.calls[Len(rec.calls)] = Awaited(rec)
           /\ rec.thrown => rec.pc = "unhandled"
           /\ rec.generation \in {"error", "no url"}
                => /\ rec.pc = "done"
                   /\ rec.calls = SubSeq(UploadChain, 1, 3)
           /\ rec.response.status = 200 => rec.calls = UploadChain

\* A request that went through the whole chain.
C24_Witness ==
  \E r \in Reqs :
    /\ req[r].kind = "upload"
    /\ req[r].pc = "done"
    /\ req[r].response.status = 200
    /\ req[r].calls = UploadChain
    /\ ~req[r].thrown

\* C25: an upload-image request, alone with its user, whose image append or
\* transaction append threw after the credit deduction leaves the balance
\* one lower than it found it, no transaction appended, and the image record
\* only if it was the transaction append that threw.
C25_NoRollback ==
  \A r \in Reqs :
    LET rec == req[r]
        u == rec.userId
    IN  (rec.kind = "upload" /\ rec.thrown /\ rec.solo
           /\ Issued(rec, "saveGeneratedImage"))
        => /\ rec.pc = "unhandled"
           /\ users[u].credits = rec.user0.credits - 1
           /\ Cardinality(TransactionsOf(u)) = rec.nTx0
           /\ Cardinality(ImagesOf(u)) =
                rec.nImages0 + (IF Issued(rec, "saveTransaction") THEN 1 ELSE 0)

\* The transaction append threw: the credit is spent, the image is stored and
\* no transaction records the deduction.
C25_Witness ==
  \E r \in Reqs :
    /\ req[r].kind = "upload"
    /\ req[r].thrown
    /\ req[r].solo
    /\ req[r].calls = UploadChain
    /\ req[r].user0.credits = 1
    /\ users[req[r].userId].credits = 0
    /\ Cardinality(ImagesOf(req[r].userId)) = req[r].nImages0 + 1
    /\ Cardinality(TransactionsOf(req[r].userId)) = req[r].nTx0

-----------------------------------------------------------------------------
(* The upload-image handler of index.js (memory storage) and the one of     *)
(* src/unnamed/part_001 (disk storage), each with a store of its own that   *)
(* holds the document of one user, given the same request and the same      *)
(* outcome of every awaited call. users, images, transactions and req are   *)
(* functions of the handler here.                                           *)

Storages == {"memory", "disk"}

\* An awaited call returns, or throws an error whose status is or is not 400.
CallOutcomes == {"returns", "throws", "throws 400"}

\* part_001:662-694, the catch of the disk-storage handler: status 400 when
\* error.status === 400, else 500
DiskThrown(rec, outcome) ==
  Respond([rec EXCEPT !.thrown = TRUE],
          Response(IF outcome = "throws 400" THEN 400 ELSE 500, "exception"))

\* index.js:631-666 and part_001:662-694
Catch(h, rec, outcome) ==
  IF h = "memory" THEN Thrown(rec) ELSE DiskThrown(rec, outcome)

\* index.js:315-330 schedules the removal of the copy it wrote; the disk
\* handler leaves the file multer wrote
Scheduled(h, rec) ==
  IF h = "memory" THEN [rec EXCEPT !.tempFile = "cleanup scheduled"] ELSE rec

HandlersInit ==
  /\ \E doc \in {AbsentUser, UserDoc(FALSE, 0), UserDoc(TRUE, 0), UserDoc(TRUE, 1),
                  UserDoc(TRUE, 2)} :
       users = [h \in Storages |-> doc]
  /\ images = [h \in Storages |-> <<>>]
  /\ transactions = [h \in Storages |-> <<>>]
  /\ \E env \in NodeEnvs :
       req = [h \in Storages |-> [IdleRequest EXCEPT !.env = env]]

At(pc) == \A h \in Storages : req[h].pc = pc

\* index.js:259-292, part_001:333-372: uploadMiddleware and the handler up to
\* its first await
BothArrive ==
  /\ At("idle")
  /\ \E form \in UploadForms :
       req' = [h \in Storages |->
                 LET rec == [req[h] EXCEPT !.kind = "upload", !.userId = form.userId,
                                           !.file = form.file]
                 IN  IF IntakeError(form.userId, form.file) # ""
                       THEN Respond(rec, Response(400, IntakeError(form.userId, form.file)))
                       ELSE Called([rec EXCEPT !.pc = "getUser"], "getUserById")]
  /\ UNCHANGED <<users, images, transactions>>

\* index.js:292-461, part_001:372-497
GotUser(h, rec, outcome) ==
  LET user == users[h]
      got == [rec EXCEPT !.fetched = TRUE, !.user = user]
  IN  IF outcome # "returns" THEN Catch(h, rec, outcome)
      ELSE IF EntitlementStatus(user) = 404
        THEN Respond(got, Response(404, "User not found"))
      ELSE IF EntitlementStatus(user) = 400
        THEN Respond(got, Response(400, "Not enough credits"))
      ELSE Called([got EXCEPT !.pc = "vision", !.tempFile = "written"], "vision")

BothGotUser ==
  /\ At("getUser")
  /\ \E outcome \in CallOutcomes :
       req' = [h \in Storages |-> GotUser(h, req[h], outcome)]
  /\ UNCHANGED <<users, images, transactions>>

\* index.js:465-539, part_001:497-584
Described(h, rec, outcome, d) ==
  LET got == [rec EXCEPT !.description = d]
  IN  IF outcome # "returns" THEN Catch(h, rec, outcome)
      ELSE IF VisionRefused(d)
        THEN Respond(Scheduled(h, got),
                     [Response(400, "could not analyze") EXCEPT
                        !.details = "Vision model unable to process image details"])
      ELSE Called([got EXCEPT !.pc = "generate"], "generate")

BothDescribed ==
  /\ At("vision")
  /\ \E outcome \in CallOutcomes, d \in Descriptions :
       req' = [h \in Storages |-> Described(h, req[h], outcome, d)]
  /\ UNCHANGED <<users, images, transactions>>

\* index.js:539-595, part_001:584-629; reply is "url", "no url" or the
\* message of the error images.generate threw
Generated(h, rec, reply) ==
  IF reply \in ProviderErrors
    THEN Respond([Scheduled(h, rec) EXCEPT !.generation = "error",
                                           !.providerError = reply],
                 IF GenerationErrorStatus(reply) = 400
                   THEN [Response(400, "image format is not compatible")
                           EXCEPT !.details = reply]
                   ELSE [Response(500, "Error generating image")
                           EXCEPT !.details = DevelopmentOnly(rec.env, reply)])
  ELSE IF reply = "no url"
    THEN Respond([Scheduled(h, rec) EXCEPT !.generation = "no url"],
                 [Response(500, "invalid response") EXCEPT
                    !.details = DevelopmentOnly(rec.env, "Missing image URL in response")])
  ELSE Called([rec EXCEPT !.pc = "uucGet", !.delta = -1, !.generation = "url"],
              "updateUserCredits")

BothGenerated ==
  /\ At("generate")
  /\ \E reply \in ProviderErrors \cup {"url", "no url"} :
       req' = [h \in Storages |-> Generated(h, req[h], reply)]
  /\ UNCHANGED <<users, images, transactions>>

\* firebase.updateUserCredits: getDoc
BothCreditsRead ==
  /\ At("uucGet")
  /\ \E outcome \in CallOutcomes :
       req' = [h \in Storages |->
                 IF outcome = "returns" /\ users[h].exists
                   THEN [req[h] EXCEPT !.pc = "uucWrite", !.snap = users[h]]
                   ELSE Catch(h, req[h], outcome)]
  /\ UNCHANGED <<users, images, transactions>>

\* firebase.updateUserCredits: updateDoc, then index.js:599, part_001:633
BothCreditsWritten ==
  /\ At("uucWrite")
  /\ \E outcome \in CallOutcomes :
       /\ users' = [h \in Storages |->
                      IF outcome = "returns"
                        THEN UserDoc(TRUE, UpdatedCredits(req[h].snap, req[h].delta))
                        ELSE users[h]]
       /\ req' = [h \in Storages |->
                    IF outcome = "returns"
                      THEN Called([req[h] EXCEPT
                                     !.pc = "saveImage", !.snap = AbsentUser,
                                     !.updatedCredits =
                                       UpdatedCredits(req[h].snap, req[h].delta)],
                                  "saveGeneratedImage")
                      ELSE Catch(h, req[h], outcome)]
  /\ UNCHANGED <<images, transactions>>

\* firebase.saveGeneratedImage: addDoc, then index.js:611, part_001:645
BothImageSaved ==
  /\ At("saveImage")
  /\ \E outcome \in CallOutcomes :
       /\ images' = [h \in Storages |->
                       IF outcome = "returns"
                         THEN AddDoc(images[h], ImageDoc(1, req[h].userId))
                         ELSE images[h]]
       /\ req' = [h \in Storages |->
                    IF outcome = "returns"
                      THEN Called([req[h] EXCEPT !.pc = "saveTx",
                                                 !.savedImageId = Len(images[h]) + 1],
                                  "saveTransaction")
                      ELSE Catch(h, req[h], outcome)]
  /\ UNCHANGED <<users, transactions>>

\* firebase.saveTransaction: addDoc, then index.js:619-630, part_001:653-661
BothTransactionSaved ==
  /\ At("saveTx")
  /\ \E outcome \in CallOutcomes :
       /\ transactions' =
            [h \in Storages |->
               IF outcome = "returns"
                 THEN AddDoc(transactions[h],
                             TransformTx(1, req[h].userId, req[h].savedImageId))
                 ELSE transactions[h]]
       /\ req' = [h \in Storages |->
                    IF outcome = "returns"
                      THEN Respond(Scheduled(h, req[h]), Success(req[h].updatedCredits))
                      ELSE Catch(h, req[h], outcome)]
  /\ UNCHANGED <<users, images>>

HandlersNext ==
  \/ BothArrive
  \/ BothGotUser
  \/ BothDescribed
  \/ BothGenerated
  \/ BothCreditsRead
  \/ BothCreditsWritten
  \/ BothImageSaved
  \/ BothTransactionSaved

HandlersSpec == HandlersInit /\ [][HandlersNext]_vars

\* C26: the two handlers have issued the same external calls and made the
\* same changes to the balance, the image records and the transaction
\* records, and once they have ended each has sent a response, of the same
\* status.
C26_SameBusinessLogic ==
  LET m == req["memory"]
      d == req["disk"]
  IN  /\ m.calls = d.calls
      /\ users["memory"] = users["disk"]
      /\ images["memory"] = images["disk"]
      /\ transactions["memory"] = transactions["disk"]
      /\ (m.pc \in {"done", "unhandled"} \/ d.pc \in {"done", "unhandled"})
           => /\ m.pc = "done"
              /\ d.pc = "done"
              /\ m.response.status = d.response.status

-----------------------------------------------------------------------------
(* POST /api/verify-payment alone: the client has paid order_A, which       *)
(* create-order made for 1 credit of the buyer; the buyer has no document.  *)

\* index.js:175-185, what create-order submitted for the order that was paid
PaidOrder == OrderOptions(5, Buyer, 1)

PaymentNext ==
  \E r \in Reqs :
    \/ VerifyPayment(r)
    \/ VerifyPaymentGotUser(r)
    \/ CreateOrUpdateUserGet(r)
    \/ CreateOrUpdateUserWrite(r)
    \/ UpdateUserCreditsGet(r)
    \/ UpdateUserCreditsWrite(r)
    \/ SaveTransaction(r)

PaymentSpec == Init /\ [][PaymentNext]_vars

PurchasesOf(orderId, paymentId) ==
  {i \in DOMAIN transactions :
     /\ transactions[i].type = "purchase"
     /\ transactions[i].orderId = orderId
     /\ transactions[i].paymentId = paymentId}

\* C27: at most one purchase transaction exists for an (order id, payment
\* id) pair, and no request adds the credits of a payment whose purchase
\* transaction exists already.
C27_CreditedOnce ==
  /\ \A o \in OrderIds, p \in PaymentIds : Cardinality(PurchasesOf(o, p)) <= 1
  /\ \A r \in Reqs :
       (req[r].kind = "verify" /\ req[r].pc \in {"uucGet", "uucWrite"})
       => PurchasesOf(req[r].orderId, req[r].paymentId) = {}

\* C28: the credits a signature-matching verify-payment request adds, and
\* the user it adds them to, are the credits and the userId of the notes of
\* the paid order.
C28_CreditsOfTheOrder ==
  /\ \A r \in Reqs :
       (req[r].kind = "verify" /\ req[r].pc \in {"uucGet", "uucWrite"})
       => /\ req[r].delta = PaidOrder.notes.credits
          /\ req[r].userId = PaidOrder.notes.userId
  /\ \A i \in DOMAIN transactions :
       transactions[i].type = "purchase"
       => /\ transactions[i].credits = PaidOrder.notes.credits
          /\ transactions[i].userId = PaidOrder.notes.userId

\* C29: once two verify-payment requests for the absent buyer have both
\* finished and recorded their purchases, the balance is the sum of the
\* credits of the two.
C29_BothCredited ==
  (/\ \A r \in Reqs : ~ InFlight(r)
   /\ Len(transactions) = 2)
  => users[Buyer].credits = transactions[1].credits + transactions[2].credits

Transformed == {i \in DOMAIN transactions : transactions[i].type = "image-transformation"}

\* C30: every image-transformation transaction carries the id of a stored
\* image record of the same user, and no two of them carry the same image id.
C30_TransactionsLinked ==
  /\ \A i \in Transformed :
       /\ transactions[i].imageId \in DOMAIN images
       /\ images[transactions[i].imageId].userId = transactions[i].userId
  /\ \A i, j \in Transformed :
       transactions[i].imageId = transactions[j].imageId => i = j

\* Two interleaved requests have each stored an image and recorded the
\* transformation under its id.
C30_Witness ==
  \E i, j \in Transformed :
    /\ i # j
    /\ transactions[i].imageId # transactions[j].imageId
    /\ transactions[i].by # transactions[j].by
    /\ Len(images) = 2

====
